---- MODULE Spec2Model ----
(***************************************************************************)
(* obsidian-for-hugo: conversion of an Obsidian vault into a Hugo content  *)
(* tree.  The repository holds three variants of the program:              *)
(*   - src/unnamed/part_000        the wait-group variant (goroutine per   *)
(*                                 file, sync.WaitGroup joined in main);   *)
(*   - src/main.go lines 1-183     the fire-and-forget variant;            *)
(*   - src/main.go lines 185-413   the copy-then-rewrite variant.          *)
(* Strings the code inspects character by character (file names, titles,  *)
(* slugs, note text) are sequences of one-character strings.               *)
(***************************************************************************)
EXTENDS Naturals, Integers, Sequences, FiniteSets, TLC

(***************************************************************************)
(* Bounds of the model.                                                    *)
(***************************************************************************)
MaxDepth == 2
MaxEntries == 3
MaxFaults == 1

(***************************************************************************)
(* Go string helpers (package strings, path), on character sequences.      *)
(***************************************************************************)
Upper == <<"A","B","C","D","E","F","G","H","I","J","K","L","M",
           "N","O","P","Q","R","S","T","U","V","W","X","Y","Z">>
Lower == <<"a","b","c","d","e","f","g","h","i","j","k","l","m",
           "n","o","p","q","r","s","t","u","v","w","x","y","z">>
Digits == <<"0","1","2","3","4","5","6","7","8","9">>

Range(s) == {s[i] : i \in DOMAIN s}

\* strings.ToLower, one character
ToLowerChar(c) ==
  IF \E i \in DOMAIN Upper : Upper[i] = c
  THEN Lower[CHOOSE i \in DOMAIN Upper : Upper[i] = c]
  ELSE c

\* strings.ToLower
ToLower(s) == [i \in DOMAIN s |-> ToLowerChar(s[i])]

\* s[lo:hi], Go's half-open, zero-based slice
Slice(s, lo, hi) == SubSeq(s, lo + 1, hi)

\* strings.HasPrefix(s[i:], p), i zero-based
HasPrefixAt(s, i, p) ==
  /\ i + Len(p) <= Len(s)
  /\ \A k \in 1..Len(p) : s[i + k] = p[k]

\* strings.HasSuffix
HasSuffix(s, p) == Len(p) <= Len(s) /\ HasPrefixAt(s, Len(s) - Len(p), p)

\* strings.Index: zero-based place of the first occurrence of p, -1 if none
Index(s, p) ==
  IF \E i \in 0..Len(s) : HasPrefixAt(s, i, p)
  THEN CHOOSE i \in 0..Len(s) :
         /\ HasPrefixAt(s, i, p)
         /\ \A j \in 0..(i - 1) : ~HasPrefixAt(s, j, p)
  ELSE -1

\* strings.Contains
Contains(s, p) == Index(s, p) >= 0

\* strings.ReplaceAll for a non-empty old: non-overlapping, left to right
RECURSIVE ReplaceAll(_, _, _)
ReplaceAll(s, old, new) ==
  IF Index(s, old) < 0
  THEN s
  ELSE Slice(s, 0, Index(s, old)) \o new
       \o ReplaceAll(Slice(s, Index(s, old) + Len(old), Len(s)), old, new)

\* strings.TrimSpace
IsSpace(c) == c \in {" ", "\n", "\t", "\r"}

RECURSIVE TrimLeft(_)
TrimLeft(s) == IF s # <<>> /\ IsSpace(Head(s)) THEN TrimLeft(Tail(s)) ELSE s

RECURSIVE TrimRight(_)
TrimRight(s) ==
  IF s # <<>> /\ IsSpace(s[Len(s)]) THEN TrimRight(SubSeq(s, 1, Len(s) - 1)) ELSE s

TrimSpace(s) == TrimRight(TrimLeft(s))

DigitValue(c) == (CHOOSE i \in DOMAIN Digits : Digits[i] = c) - 1

RECURSIVE DecimalValue(_)
DecimalValue(s) ==
  IF s = <<>> THEN 0
  ELSE 10 * DecimalValue(SubSeq(s, 1, Len(s) - 1)) + DigitValue(s[Len(s)])

\* strconv.ParseInt(s, 10, 64) with the error dropped: 0 when s is no number
ParseInt(s) ==
  IF s # <<>> /\ \A i \in DOMAIN s : s[i] \in Range(Digits)
  THEN DecimalValue(s)
  ELSE 0

\* path.Base of a path held as the sequence of its elements
Base(p) == p[Len(p)]

\* path.Dir of a path held as the sequence of its elements
Dir(p) == SubSeq(p, 1, Len(p) - 1)

RECURSIVE Flatten(_)
Flatten(ss) == IF ss = <<>> THEN <<>> ELSE Head(ss) \o Flatten(Tail(ss))

(***************************************************************************)
(* Front matter (src/unnamed/part_000).                                    *)
(***************************************************************************)
\* the zero value of struct FrontMatter
ZeroFrontMatter ==
  [Title |-> <<>>, Date |-> "", Draft |-> FALSE,
   Tags |-> <<>>, Categories |-> <<>>, Slug |-> <<>>]

\* Unix times of the model, and time.Unix(t, 0).Format(time.RFC3339)
Times == {0, 1, 2, 3}
FormatRFC3339(t) ==
  CASE t = 0 -> "1970-01-01T00:00:00Z"
    [] t = 1 -> "1970-01-01T00:00:01Z"
    [] t = 2 -> "1970-01-01T00:00:02Z"
    [] t = 3 -> "1970-01-01T00:00:03Z"

\* file.Title of convertFile: the base name without ".md" and without "#"
FileTitle(name) == ReplaceAll(ReplaceAll(name, <<".", "m", "d">>, <<>>), <<"#">>, <<>>)

addFallbackFrontMatterTitle(name, fm) ==
  IF fm.Title = <<>> THEN [fm EXCEPT !.Title = FileTitle(name)] ELSE fm

\* slugifyRegex [^a-zA-Z0-9]
IsAlnum(c) == c \in Range(Upper) \cup Range(Lower) \cup Range(Digits)

\* slugifyRegex.ReplaceAllString(s, "-")
Slugify(s) == [i \in DOMAIN s |-> IF IsAlnum(s[i]) THEN s[i] ELSE "-"]

addFallbackFrontMatterSlug(fm) ==
  IF fm.Slug = <<>> THEN [fm EXCEPT !.Slug = ToLower(Slugify(fm.Title))] ELSE fm

\* What the date lookups meet in the environment: git rev-parse failing,
\* pty.Start failing, ioutil.ReadAll returning an error, the bytes read from
\* git log, os.Stat failing, the file's modification time, the clock.
GitOutputs == { <<>>, <<"3", "\n">>, <<"f", "a", "t", "a", "l", "\n">> }
DateEnvs ==
  [gitRootErr : BOOLEAN, ptyErr : BOOLEAN, readErr : BOOLEAN,
   output : GitOutputs, statErr : BOOLEAN, mtime : {1}, now : {2}]

\* the value of dateEnv before the date lookups have run
NoLookup ==
  [gitRootErr |-> TRUE, ptyErr |-> TRUE, readErr |-> TRUE,
   output |-> <<>>, statErr |-> TRUE, mtime |-> 1, now |-> 2]

attemptGitDate(env, fm) ==
  IF env.gitRootErr THEN fm
  ELSE IF env.ptyErr THEN fm
  ELSE IF env.readErr
       THEN [fm EXCEPT !.Date = FormatRFC3339(ParseInt(TrimSpace(env.output)))]
       ELSE fm

attemptFileDate(env, fm) ==
  IF env.statErr THEN fm ELSE [fm EXCEPT !.Date = FormatRFC3339(env.mtime)]

AfterGitDate(env, fm) == IF fm.Date = "" THEN attemptGitDate(env, fm) ELSE fm
AfterFileDate(env, fm) == IF fm.Date = "" THEN attemptFileDate(env, fm) ELSE fm
AfterNowDate(env, fm) ==
  IF fm.Date = "" THEN [fm EXCEPT !.Date = FormatRFC3339(env.now)] ELSE fm

addFallbackFrontMatterDate(env, fm) ==
  AfterNowDate(env, AfterFileDate(env, AfterGitDate(env, fm)))

(***************************************************************************)
(* Wiki links.  wikiLinkRegex is \[\[(.*?)\]\]: the leftmost "[[", then    *)
(* the nearest "]]" with no newline in between.                            *)
(***************************************************************************)
LL == <<"[", "[">>
RR == <<"]", "]">>

\* zero-based place of the "]]" closing a link opened at i, -1 if none
MatchEnd(text, i) ==
  LET ok(j) == /\ HasPrefixAt(text, j, RR)
               /\ \A k \in (i + 3)..j : text[k] # "\n"
  IN IF \E j \in (i + 2)..Len(text) : ok(j)
     THEN CHOOSE j \in (i + 2)..Len(text) :
            ok(j) /\ \A j2 \in (i + 2)..(j - 1) : ~ok(j2)
     ELSE -1

\* zero-based place of the leftmost match of wikiLinkRegex, -1 if none
FirstMatch(text) ==
  LET ok(i) == HasPrefixAt(text, i, LL) /\ MatchEnd(text, i) >= 0
  IN IF \E i \in 0..Len(text) : ok(i)
     THEN CHOOSE i \in 0..Len(text) : ok(i) /\ \A i2 \in 0..(i - 1) : ~ok(i2)
     ELSE -1

\* The text cut at the successive matches of wikiLinkRegex, as ReplaceAllFunc
\* walks it: a sequence of [match, s], s a match or the text between two.
RECURSIVE WikiSegments(_)
WikiSegments(text) ==
  LET i == FirstMatch(text)
      j == MatchEnd(text, i)
  IN IF i < 0
     THEN IF text = <<>> THEN <<>> ELSE << [match |-> FALSE, s |-> text] >>
     ELSE (IF i = 0 THEN <<>> ELSE << [match |-> FALSE, s |-> Slice(text, 0, i)] >>)
          \o << [match |-> TRUE, s |-> Slice(text, i, j + 2)] >>
          \o WikiSegments(Slice(text, j + 2, Len(text)))

RefOpen == <<"]", "(", "{", "{", "<", " ", "r", "e", "f", " ", "\"">>
RefClose == <<"\"", " ", ">", "}", "}", ")">>

\* fmt.Sprintf("[%s]({{< ref \"%s#%s\" >}})", link, link, heading)
RefWithHeading(link, heading) ==
  <<"[">> \o link \o RefOpen \o link \o <<"#">> \o heading \o RefClose

\* fmt.Sprintf("[%s]({{< ref \"%s\" >}})", link, link)
RefPlain(link) == <<"[">> \o link \o RefOpen \o link \o RefClose

\* the function convertWikiLinks hands to ReplaceAllFunc (part_000)
WikiLinkReplacement(match) ==
  LET link == Slice(match, 2, Len(match) - 2)
  IN IF Contains(link, <<"#">>)
     THEN LET heading == ToLower(ReplaceAll(
                 Slice(link, Index(link, <<"#">>) + 1, Len(link)), <<" ">>, <<"-">>))
              page == Slice(link, 0, Index(link, <<"#">>))
          IN RefWithHeading(page, heading)
     ELSE RefPlain(link)

convertWikiLinks(text) ==
  LET segs == WikiSegments(text)
  IN Flatten([k \in DOMAIN segs |->
       IF segs[k].match THEN WikiLinkReplacement(segs[k].s) ELSE segs[k].s])

\* the function convertContent hands to ReplaceAllFunc (main.go): the link is
\* cut at its "#" before the heading is taken from it
ContentLinkReplacement(match) ==
  LET link == Slice(match, 2, Len(match) - 2)
  IN IF Contains(link, <<"#">>)
     THEN LET page == Slice(link, 0, Index(link, <<"#">>))
              heading == ToLower(ReplaceAll(
                 Slice(page, Index(page, <<"#">>) + 1, Len(page)), <<" ">>, <<"-">>))
          IN RefWithHeading(page, heading)
     ELSE RefPlain(link)

convertContent(text) ==
  LET segs == WikiSegments(text)
  IN Flatten([k \in DOMAIN segs |->
       IF segs[k].match THEN ContentLinkReplacement(segs[k].s) ELSE segs[k].s])

\* the same function in the copy-then-rewrite variant of main.go
convertObsidianMarkdownToHugoMarkdown(text) == convertContent(text)

\* the value of rewritten before any rewriter has run
NotRewritten == [wiki |-> <<>>, content |-> <<>>, markdown |-> <<>>, by |-> {}]

(***************************************************************************)
(* The vault and the content tree.  A path is the sequence of its element  *)
(* names below VaultDir (source) or OutputDir (destination); <<>> is the   *)
(* root itself.                                                            *)
(***************************************************************************)
NoteMd == <<"n", ".", "m", "d">>
ImagePng == <<"i", ".", "p", "n", "g">>
HiddenMd == <<".", "h", ".", "m", "d">>
SubDir == <<"d">>
GitDir == <<".", "g">>
OldTxt == <<"o", ".", "t", "x", "t">>

FileNames == {NoteMd, ImagePng, HiddenMd}
DirNames == {SubDir, GitDir}

\* what a file holds: its leading metadata block (none, well-formed with the
\* fields fm, or malformed) and the text after it
PlainContent ==
  [meta |-> "none", fm |-> ZeroFrontMatter,
   body |-> <<"[", "[", "P", "#", "H", " ", "h", "]", "]">>]
TitledContent ==
  [meta |-> "ok",
   fm |-> [ZeroFrontMatter EXCEPT !.Title = <<"T">>, !.Slug = <<"s">>,
                                  !.Date = "2020-01-01"],
   body |-> <<"x">>]
BadContent == [meta |-> "bad", fm |-> ZeroFrontMatter, body |-> <<"x">>]
FileContents == {PlainContent, TitledContent, BadContent}

\* what a file that is no note holds: bytes without a metadata block
ImageContent == [meta |-> "none", fm |-> ZeroFrontMatter, body |-> <<"P", "N", "G">>]

\* what a file of a given name can hold
ContentsOf(name) ==
  IF name = NoteMd THEN FileContents
  ELSE IF name = HiddenMd THEN {PlainContent}
  ELSE {ImageContent}

Extensions(t) ==
  {d \o <<nm>> : d \in {q \in {<<>>} \cup t.dirs : Len(q) < MaxDepth},
                 nm \in FileNames \cup DirNames} \ (t.dirs \cup t.files)

Grow(t, p) ==
  IF Base(p) \in DirNames
  THEN [t EXCEPT !.dirs = @ \cup {p}]
  ELSE [t EXCEPT !.files = @ \cup {p}]

\* the directory trees of at most n entries
RECURSIVE Trees(_)
Trees(n) ==
  IF n = 0
  THEN {[dirs |-> {}, files |-> {}]}
  ELSE Trees(n - 1) \cup {Grow(t, p) : <<t, p>> \in
         UNION {{<<t2, p2>> : p2 \in Extensions(t2)} : t2 \in Trees(n - 1)}}

Vaults ==
  UNION {{[dirs |-> t.dirs, files |-> f] :
            f \in {g \in [t.files -> FileContents \cup {ImageContent}] :
                     \A p \in t.files : g[p] \in ContentsOf(Base(p))}} :
         t \in Trees(MaxEntries)}

NoFiles == [p \in {} |-> PlainContent]

\* OutputDir before the run: missing, empty, or holding a stray file and
\* a directory left by an earlier run
InitialDests ==
  { [dirs |-> {}, files |-> NoFiles],
    [dirs |-> {<<>>}, files |-> NoFiles],
    [dirs |-> {<<>>, <<SubDir>>}, files |-> (<<OldTxt>> :> TitledContent)] }

\* bytes in their order, for the names os.ReadDir sorts
ByteOrder == <<" ", "#", "-", ".">> \o Digits \o Upper \o Lower
Rank(c) == CHOOSE i \in DOMAIN ByteOrder : ByteOrder[i] = c

RECURSIVE NameLess(_, _)
NameLess(a, b) ==
  IF a = <<>> THEN b # <<>>
  ELSE IF b = <<>> THEN FALSE
  ELSE IF Head(a) = Head(b) THEN NameLess(Tail(a), Tail(b))
  ELSE Rank(Head(a)) < Rank(Head(b))

RECURSIVE SortNames(_)
SortNames(S) ==
  IF S = {} THEN <<>>
  ELSE LET m == CHOOSE x \in S : \A y \in S \ {x} : NameLess(x, y)
       IN <<m>> \o SortNames(S \ {m})

\* the three programs of the repository
Variants == {"waitGroup", "fireAndForget", "copy"}

VARIABLES
  variant,        \* which program runs
  vault,          \* the source tree: [dirs, files], files a function path -> content
  clearOutputDir, \* config.ClearOutputDir
  destDirs,       \* the directories under OutputDir
  destFiles,      \* the files under OutputDir: a function path -> content
  pc,             \* where main is
  stack,          \* the frames of the recursive walk, innermost last
  ret,            \* what ConvertObsidianToHugo returned
  wg,             \* the counter of the sync.WaitGroup
  units,          \* the goroutines running convertFile, by source path
  exitCode,       \* the argument of os.Exit, -1 while the process runs
  faults,         \* the I/O failures met so far
  clearFiles,     \* clearDir's files still to remove
  copiedPaths,    \* ConvertObsidianToHugo's copiedPaths still to rewrite
  file,           \* convertFile's file, for the front matter processors
  parsedFrontMatter, \* the front matter parseFrontMatter returned
  frontMatter,    \* the front matter the processors fill in
  step,           \* how far the front matter processors have run
  dateEnv,        \* what the date lookups met
  linkPage,       \* a wiki link's text up to its first "#"
  linkHeading,    \* a wiki link's text past its first "#"
  textBefore,     \* the note's text in front of the link
  textAfter,      \* the note's text behind the link
  rewritten       \* the note as each link rewriter leaves it

inputs == <<variant, vault, clearOutputDir>>
walkVars ==
  <<inputs, destDirs, destFiles, pc, stack, ret, wg, units, exitCode, faults,
    clearFiles, copiedPaths>>
fmVars == <<file, parsedFrontMatter, frontMatter, step, dateEnv>>
linkVars == <<linkPage, linkHeading, textBefore, textAfter, rewritten>>
vars == <<walkVars, fmVars, linkVars>>
others == <<inputs, fmVars, linkVars>>

\* os.ReadDir(fromDirPath): the names of the entries, sorted
DirEntries(d) ==
  SortNames({Base(p) : p \in {q \in vault.dirs \cup DOMAIN vault.files : Dir(q) = d}})

\* a walker that looks at the last character of the name
IsHiddenLastChar(name) == name[Len(name)] = "."

\* name[0] == '.'
IsHidden(name) == name[1] = "."

\* what os.Mkdir(toFullPath) can return, nil included
MkdirResults(to) ==
  IF Dir(to) \notin destDirs THEN {"ENOENT"}
  ELSE IF to \in destDirs \cup DOMAIN destFiles THEN {"EEXIST"}
  ELSE {"nil"} \cup (IF faults < MaxFaults THEN {"EACCES"} ELSE {})

\* err != nil && os.IsNotExist(err)
MkdirAborts(err) == err # "nil" /\ err = "ENOENT"

\* the frame of a call of convertAllRecursively or copyObsidianToHugo
Frame(rel) ==
  [rel |-> rel, read |-> FALSE, todo |-> <<>>, err |-> "nil", copied |-> <<>>]

Top == stack[Len(stack)]
SetTop(f) == [stack EXCEPT ![Len(stack)] = f]
Walking == pc = "walk" /\ stack # <<>>
AtEntry == Walking /\ Top.read /\ Top.todo # <<>>

\* return err, up to main
Abort ==
  /\ stack' = <<>>
  /\ pc' = "returned"
  /\ ret' = "err"

\* an I/O operation fails
Fault ==
  /\ faults < MaxFaults
  /\ faults' = faults + 1

\* no front matter under way
FmIdle ==
  /\ file = [Name |-> NoteMd, Title |-> FileTitle(NoteMd)]
  /\ parsedFrontMatter = ZeroFrontMatter
  /\ frontMatter = ZeroFrontMatter
  /\ step = "idle"
  /\ dateEnv = NoLookup

\* no note under rewrite
LinkIdle ==
  /\ linkPage = <<>>
  /\ linkHeading = <<>>
  /\ textBefore = <<>>
  /\ textAfter = <<>>
  /\ rewritten = NotRewritten

\* no walk under way
WalkIdle ==
  /\ variant = "waitGroup"
  /\ vault = [dirs |-> {}, files |-> NoFiles]
  /\ clearOutputDir = TRUE
  /\ destDirs = {}
  /\ destFiles = NoFiles
  /\ pc = "idle"
  /\ stack = <<>>
  /\ ret = "none"
  /\ wg = 0
  /\ units = [p \in {} |-> 0]
  /\ exitCode = -1
  /\ faults = 0
  /\ clearFiles = <<>>
  /\ copiedPaths = <<>>

\* main has parsed its flags and calls ConvertObsidianToHugo
Init ==
  /\ FmIdle
  /\ LinkIdle
  /\ variant \in Variants
  /\ vault \in Vaults
  /\ clearOutputDir \in CASE variant = "waitGroup" -> {TRUE}
                          [] variant = "fireAndForget" -> {FALSE}
                          [] variant = "copy" -> BOOLEAN
  /\ \E d \in InitialDests : destDirs = d.dirs /\ destFiles = d.files
  /\ pc = CASE variant = "waitGroup" -> "removeAll"
            [] variant = "fireAndForget" -> "walk"
            [] variant = "copy" -> IF clearOutputDir THEN "clear" ELSE "walk"
  /\ stack = IF pc = "walk" THEN <<Frame(<<>>)>> ELSE <<>>
  /\ ret = "none"
  /\ wg = 0
  /\ units = [p \in {} |-> 0]
  /\ exitCode = -1
  /\ faults = 0
  /\ clearFiles = <<>>
  /\ copiedPaths = <<>>

(***************************************************************************)
(* The walk, the same text in the three programs but for what is done      *)
(* with a file.                                                            *)
(***************************************************************************)
\* os.ReadDir(fromDirPath); its error is returned by every caller up to main
ReadDir ==
  /\ Walking
  /\ ~Top.read
  /\ \/ /\ stack' = SetTop([Top EXCEPT !.read = TRUE, !.todo = DirEntries(Top.rel)])
        /\ UNCHANGED <<pc, ret, faults>>
     \/ /\ Fault
        /\ Abort
  /\ UNCHANGED <<destDirs, destFiles, wg, units, exitCode, clearFiles, copiedPaths>>
  /\ UNCHANGED others

\* a hidden entry is passed over
SkipHidden ==
  /\ AtEntry
  /\ IsHidden(Head(Top.todo))
  /\ stack' = SetTop([Top EXCEPT !.todo = Tail(@)])
  /\ UNCHANGED <<destDirs, destFiles, pc, ret, wg, units, exitCode, faults,
                 clearFiles, copiedPaths>>
  /\ UNCHANGED others

\* a directory is mirrored with os.Mkdir, then walked
EnterDir ==
  /\ AtEntry
  /\ ~IsHidden(Head(Top.todo))
  /\ LET to == Top.rel \o <<Head(Top.todo)>>
     IN /\ to \in vault.dirs
        /\ \E err \in MkdirResults(to) :
             /\ destDirs' = IF err = "nil" THEN destDirs \cup {to} ELSE destDirs
             /\ faults' = IF err = "EACCES" THEN faults + 1 ELSE faults
             /\ IF MkdirAborts(err)
                THEN Abort
                ELSE /\ stack' = SetTop([Top EXCEPT !.todo = Tail(@), !.err = err])
                                   \o <<Frame(to)>>
                     /\ UNCHANGED <<pc, ret>>
  /\ UNCHANGED <<destFiles, wg, units, exitCode, clearFiles, copiedPaths>>
  /\ UNCHANGED others

(***************************************************************************)
(* The wait-group program (src/unnamed/part_000).                          *)
(***************************************************************************)
\* ConvertObsidianToHugo: os.RemoveAll(config.OutputDir)
RemoveAll ==
  /\ pc = "removeAll"
  /\ \/ /\ destDirs' = {}
        /\ destFiles' = NoFiles
        /\ pc' = "mkdirAll"
        /\ UNCHANGED <<stack, ret, faults>>
     \/ /\ Fault
        /\ Abort
        /\ UNCHANGED <<destDirs, destFiles>>
  /\ UNCHANGED <<wg, units, exitCode, clearFiles, copiedPaths>>
  /\ UNCHANGED others

\* ConvertObsidianToHugo: os.MkdirAll(config.OutputDir), then the call of
\* convertAllRecursively on the two roots
MkdirAll ==
  /\ pc = "mkdirAll"
  /\ \/ /\ destDirs' = destDirs \cup {<<>>}
        /\ pc' = "walk"
        /\ stack' = <<Frame(<<>>)>>
        /\ UNCHANGED <<ret, faults>>
     \/ /\ Fault
        /\ Abort
        /\ UNCHANGED destDirs
  /\ UNCHANGED <<destFiles, wg, units, exitCode, clearFiles, copiedPaths>>
  /\ UNCHANGED others

\* wg.Add(1)
WgAdd(n) == n + 1

\* a convertFile that returns without wg.Done()
WgDoneMissing(n) == n

\* defer wg.Done()
WgDone(n) == n - 1

\* a goroutine that has just been started
NewUnit == [pc |-> "read", contents |-> PlainContent, err |-> "nil"]

\* convertAllRecursively: a file gets its goroutine: wg.Add(1); go convertFile
DispatchFile ==
  /\ variant = "waitGroup"
  /\ AtEntry
  /\ ~IsHidden(Head(Top.todo))
  /\ LET from == Top.rel \o <<Head(Top.todo)>>
     IN /\ from \in DOMAIN vault.files
        /\ wg' = WgAdd(wg)
        /\ units' = (from :> NewUnit) @@ units
  /\ stack' = SetTop([Top EXCEPT !.todo = Tail(@)])
  /\ UNCHANGED <<destDirs, destFiles, pc, ret, exitCode, faults, clearFiles, copiedPaths>>
  /\ UNCHANGED others

\* convertAllRecursively: return nil at the end of the loop; the outermost
\* call returns to ConvertObsidianToHugo, which returns to main
ReturnFromDir ==
  /\ variant \in {"waitGroup", "fireAndForget"}
  /\ Walking
  /\ Top.read /\ Top.todo = <<>>
  /\ stack' = SubSeq(stack, 1, Len(stack) - 1)
  /\ IF Len(stack) = 1
     THEN pc' = "returned" /\ ret' = "nil"
     ELSE UNCHANGED <<pc, ret>>
  /\ UNCHANGED <<destDirs, destFiles, wg, units, exitCode, faults, clearFiles, copiedPaths>>
  /\ UNCHANGED others

\* parseFrontMatter: the metadata block and the rest, or an error
parseFrontMatter(contents) ==
  [err |-> contents.meta = "bad",
   fm |-> IF contents.meta = "ok" THEN contents.fm ELSE ZeroFrontMatter,
   rest |-> contents.body]

\* convertFile from the file read to file.Contents, for a file that parses:
\* the content processors on the body, the front matter processors in their
\* order, the block marshalled ahead of the body.  One result per environment
\* the date lookups can meet.
ConvertedSet(name, contents) ==
  LET got == parseFrontMatter(contents)
      body == convertWikiLinks(got.rest)
      named == addFallbackFrontMatterSlug(addFallbackFrontMatterTitle(name, got.fm))
  IN {[meta |-> "ok", fm |-> addFallbackFrontMatterDate(env, named), body |-> body] :
        env \in DateEnvs}

Running(p) == pc # "exited" /\ p \in DOMAIN units

\* convertFile: os.ReadFile, parseFrontMatter and the processors
UnitRead(p) ==
  /\ variant = "waitGroup"
  /\ Running(p)
  /\ units[p].pc = "read"
  /\ \/ /\ Fault
        /\ units' = [units EXCEPT ![p].pc = "done", ![p].err = "read"]
        /\ wg' = WgDone(wg)
     \/ /\ parseFrontMatter(vault.files[p]).err
        /\ units' = [units EXCEPT ![p].pc = "done", ![p].err = "parse"]
        /\ wg' = WgDone(wg)
        /\ UNCHANGED faults
     \/ /\ ~parseFrontMatter(vault.files[p]).err
        /\ \E c \in ConvertedSet(Base(p), vault.files[p]) :
             units' = [units EXCEPT ![p].pc = "write", ![p].contents = c]
        /\ UNCHANGED <<wg, faults>>
  /\ UNCHANGED <<destDirs, destFiles, pc, stack, ret, exitCode, clearFiles, copiedPaths>>
  /\ UNCHANGED others

\* os.WriteFile(toPath) of a goroutine: the file written, or an error
WriteFile(p) ==
  \/ /\ Dir(p) \in destDirs
     /\ p \notin destDirs
     /\ destFiles' = (p :> units[p].contents) @@ destFiles
     /\ units' = [units EXCEPT ![p].pc = "done"]
     /\ UNCHANGED faults
  \/ /\ Dir(p) \notin destDirs \/ p \in destDirs
     /\ units' = [units EXCEPT ![p].pc = "done", ![p].err = "write"]
     /\ UNCHANGED <<destFiles, faults>>
  \/ /\ Dir(p) \in destDirs
     /\ p \notin destDirs
     /\ Fault
     /\ units' = [units EXCEPT ![p].pc = "done", ![p].err = "write"]
     /\ UNCHANGED destFiles

\* convertFile: os.WriteFile(toPath), then the deferred wg.Done()
UnitWrite(p) ==
  /\ variant = "waitGroup"
  /\ Running(p)
  /\ units[p].pc = "write"
  /\ WriteFile(p)
  /\ wg' = WgDone(wg)
  /\ UNCHANGED <<destDirs, pc, stack, ret, exitCode, clearFiles, copiedPaths>>
  /\ UNCHANGED others

\* main: fmt.Println(err); os.Exit(1), the same in the three programs
MainExitError ==
  /\ pc = "returned"
  /\ ret = "err"
  /\ pc' = "exited"
  /\ exitCode' = 1
  /\ UNCHANGED <<destDirs, destFiles, stack, ret, wg, units, faults, clearFiles, copiedPaths>>
  /\ UNCHANGED others

\* wg.Wait() returns
WaitReturns(n) == n = 0

\* main: wg.Wait(); os.Exit(0)
MainWaitExit ==
  /\ variant = "waitGroup"
  /\ pc = "returned"
  /\ ret = "nil"
  /\ WaitReturns(wg)
  /\ pc' = "exited"
  /\ exitCode' = 0
  /\ UNCHANGED <<destDirs, destFiles, stack, ret, wg, units, faults, clearFiles, copiedPaths>>
  /\ UNCHANGED others

(***************************************************************************)
(* The fire-and-forget program (src/main.go, lines 1 to 183).              *)
(***************************************************************************)
\* convertAllRecursively: go convertFile(...)
DispatchFileNoJoin ==
  /\ variant = "fireAndForget"
  /\ AtEntry
  /\ ~IsHidden(Head(Top.todo))
  /\ LET from == Top.rel \o <<Head(Top.todo)>>
     IN /\ from \in DOMAIN vault.files
        /\ units' = (from :> NewUnit) @@ units
  /\ stack' = SetTop([Top EXCEPT !.todo = Tail(@)])
  /\ UNCHANGED <<destDirs, destFiles, pc, ret, wg, exitCode, faults, clearFiles, copiedPaths>>
  /\ UNCHANGED others

\* frontmatter.Parse with its error dropped: nothing parsed and no rest when
\* the block is malformed
ParseDroppingError(contents) ==
  [fm |-> IF contents.meta = "ok" THEN contents.fm ELSE ZeroFrontMatter,
   rest |-> IF contents.meta = "bad" THEN <<>> ELSE contents.body]

\* convertFrontMatter: title from the file name, slug from the title, date
\* from os.Stat(fileName) or the clock
convertFrontMatter(env, fileName, contents) ==
  LET got == ParseDroppingError(contents)
      titled == IF got.fm.Title = <<>>
                THEN [got.fm EXCEPT !.Title = ReplaceAll(fileName, <<"#">>, <<>>)]
                ELSE got.fm
      slugged == IF titled.Slug = <<>>
                 THEN [titled EXCEPT !.Slug = ToLower(Slugify(titled.Title))]
                 ELSE titled
      dated == IF slugged.Date = ""
               THEN [slugged EXCEPT !.Date = IF env.statErr
                                             THEN FormatRFC3339(env.now)
                                             ELSE FormatRFC3339(env.mtime)]
               ELSE slugged
  IN [meta |-> "ok", fm |-> dated, body |-> got.rest]

\* convertFile: the content processors convertFrontMatter and convertContent
\* on the file read; the metadata blocks of the model hold no link
ProcessedSet(name, contents) ==
  LET fileName == ReplaceAll(name, <<".", "m", "d">>, <<>>)
      body == convertContent(ParseDroppingError(contents).rest)
  IN {[convertFrontMatter(env, fileName, contents) EXCEPT !.body = body] :
        env \in DateEnvs}

\* convertFile: os.ReadFile and the content processors
UnitReadNoJoin(p) ==
  /\ variant = "fireAndForget"
  /\ Running(p)
  /\ units[p].pc = "read"
  /\ \/ /\ Fault
        /\ units' = [units EXCEPT ![p].pc = "done", ![p].err = "read"]
     \/ /\ \E c \in ProcessedSet(Base(p), vault.files[p]) :
             units' = [units EXCEPT ![p].pc = "write", ![p].contents = c]
        /\ UNCHANGED faults
  /\ UNCHANGED <<destDirs, destFiles, pc, stack, ret, wg, exitCode, clearFiles, copiedPaths>>
  /\ UNCHANGED others

\* convertFile: os.WriteFile(toPath)
UnitWriteNoJoin(p) ==
  /\ variant = "fireAndForget"
  /\ Running(p)
  /\ units[p].pc = "write"
  /\ WriteFile(p)
  /\ UNCHANGED <<destDirs, pc, stack, ret, wg, exitCode, clearFiles, copiedPaths>>
  /\ UNCHANGED others

\* main: os.Exit(0) as soon as ConvertObsidianToHugo has returned nil
MainExit ==
  /\ variant \in {"fireAndForget", "copy"}
  /\ pc = "returned"
  /\ ret = "nil"
  /\ pc' = "exited"
  /\ exitCode' = 0
  /\ UNCHANGED <<destDirs, destFiles, stack, ret, wg, units, faults, clearFiles, copiedPaths>>
  /\ UNCHANGED others

(***************************************************************************)
(* The copy-then-rewrite program (src/main.go, lines 185 to 413).          *)
(***************************************************************************)
DestPaths == destDirs \cup DOMAIN destFiles

\* p is q or lies under q
Under(p, q) == Len(q) <= Len(p) /\ SubSeq(p, 1, Len(q)) = q

\* clearDir: os.ReadDir(dir), and os.Mkdir(dir) when dir is missing
ClearReadDir ==
  /\ pc = "clear"
  /\ \/ /\ <<>> \notin destDirs
        /\ destDirs' = destDirs \cup {<<>>}
        /\ clearFiles' = <<>>
        /\ pc' = "clearLoop"
        /\ UNCHANGED <<stack, ret, faults>>
     \/ /\ <<>> \in destDirs
        /\ clearFiles' = SortNames({Base(p) : p \in {q \in DestPaths : Len(q) = 1}})
        /\ pc' = "clearLoop"
        /\ UNCHANGED <<destDirs, stack, ret, faults>>
     \/ /\ Fault
        /\ Abort
        /\ UNCHANGED <<destDirs, clearFiles>>
  /\ UNCHANGED <<destFiles, wg, units, exitCode, copiedPaths>>
  /\ UNCHANGED others

\* clearDir: os.RemoveAll of a directory, os.Remove of a file
ClearRemove ==
  /\ pc = "clearLoop"
  /\ clearFiles # <<>>
  /\ \/ /\ destDirs' = {p \in destDirs : ~Under(p, <<Head(clearFiles)>>)}
        /\ destFiles' = [p \in {q \in DOMAIN destFiles : ~Under(q, <<Head(clearFiles)>>)}
                           |-> destFiles[p]]
        /\ clearFiles' = Tail(clearFiles)
        /\ UNCHANGED <<pc, stack, ret, faults>>
     \/ /\ Fault
        /\ Abort
        /\ UNCHANGED <<destDirs, destFiles, clearFiles>>
  /\ UNCHANGED <<wg, units, exitCode, copiedPaths>>
  /\ UNCHANGED others

\* clearDir returns nil; ConvertObsidianToHugo calls copyObsidianToHugo
ClearDone ==
  /\ pc = "clearLoop"
  /\ clearFiles = <<>>
  /\ pc' = "walk"
  /\ stack' = <<Frame(<<>>)>>
  /\ UNCHANGED <<destDirs, destFiles, ret, wg, units, exitCode, faults, clearFiles,
                 copiedPaths>>
  /\ UNCHANGED others

\* copyObsidianToHugo: a file is read and written as it is
CopyFile ==
  /\ variant = "copy"
  /\ AtEntry
  /\ ~IsHidden(Head(Top.todo))
  /\ LET p == Top.rel \o <<Head(Top.todo)>>
         next == SetTop([Top EXCEPT !.todo = Tail(@), !.copied = Append(@, p)])
     IN /\ p \in DOMAIN vault.files
        /\ \/ /\ Dir(p) \in destDirs
              /\ p \notin destDirs
              /\ destFiles' = (p :> vault.files[p]) @@ destFiles
              /\ stack' = next
              /\ UNCHANGED <<pc, ret, faults>>
           \/ /\ Dir(p) \notin destDirs \/ p \in destDirs
              /\ Abort
              /\ UNCHANGED <<destFiles, faults>>
           \/ /\ Fault
              /\ Abort
              /\ UNCHANGED destFiles
  /\ UNCHANGED <<destDirs, wg, units, exitCode, clearFiles, copiedPaths>>
  /\ UNCHANGED others

\* copyObsidianToHugo returns its copiedPaths, to the call above it or to
\* ConvertObsidianToHugo
CopyReturn ==
  /\ variant = "copy"
  /\ Walking
  /\ Top.read /\ Top.todo = <<>>
  /\ IF Len(stack) = 1
     THEN /\ stack' = <<>>
          /\ copiedPaths' = Top.copied
          /\ pc' = "rewrite"
     ELSE /\ stack' = [SubSeq(stack, 1, Len(stack) - 1) EXCEPT
                         ![Len(stack) - 1].copied = @ \o Top.copied]
          /\ UNCHANGED <<copiedPaths, pc>>
  /\ UNCHANGED <<destDirs, destFiles, ret, wg, units, exitCode, faults, clearFiles>>
  /\ UNCHANGED others

\* the elements of a path joined with "/"
RECURSIVE JoinPath(_)
JoinPath(p) ==
  IF Len(p) <= 1 THEN Flatten(p)
  ELSE Head(p) \o <<"/">> \o JoinPath(Tail(p))

\* convertObsidianYamlToHugoYaml: title and slug from the file name
convertObsidianYamlToHugoYaml(fileName, contents) ==
  LET got == ParseDroppingError(contents)
      titled == IF got.fm.Title = <<>>
                THEN [got.fm EXCEPT !.Title = ReplaceAll(fileName, <<"#">>, <<>>)]
                ELSE got.fm
      slugged == IF titled.Slug = <<>>
                 THEN [titled EXCEPT !.Slug = ReplaceAll(fileName, <<" ">>, <<"-">>)]
                 ELSE titled
  IN [meta |-> "ok", fm |-> slugged, body |-> got.rest]

\* ConvertObsidianToHugo: the content processors on a copied file, its name
\* the path below OutputDir without ".md"
Rewritten(p, contents) ==
  LET fileName == ReplaceAll(JoinPath(p), <<".", "m", "d">>, <<>>)
      yaml == convertObsidianYamlToHugoYaml(fileName, contents)
  IN [yaml EXCEPT !.body = convertObsidianMarkdownToHugoMarkdown(yaml.body)]

\* ConvertObsidianToHugo: the next copied path, rewritten in place when its
\* name ends in ".md"; the error of os.WriteFile is dropped
RewriteCopied ==
  /\ pc = "rewrite"
  /\ copiedPaths # <<>>
  /\ LET p == Head(copiedPaths)
     IN IF ~HasSuffix(JoinPath(p), <<".", "m", "d">>)
        THEN /\ copiedPaths' = Tail(copiedPaths)
             /\ UNCHANGED <<destFiles, pc, stack, ret, faults>>
        ELSE \/ /\ p \in DOMAIN destFiles
                /\ destFiles' = [destFiles EXCEPT ![p] = Rewritten(p, destFiles[p])]
                /\ copiedPaths' = Tail(copiedPaths)
                /\ UNCHANGED <<pc, stack, ret, faults>>
             \/ /\ p \in DOMAIN destFiles
                /\ Fault
                /\ copiedPaths' = Tail(copiedPaths)
                /\ UNCHANGED <<destFiles, pc, stack, ret>>
             \/ /\ Fault \/ (p \notin DOMAIN destFiles /\ UNCHANGED faults)
                /\ Abort
                /\ UNCHANGED <<destFiles, copiedPaths>>
  /\ UNCHANGED <<destDirs, wg, units, exitCode, clearFiles>>
  /\ UNCHANGED others

\* ConvertObsidianToHugo: return nil after the last copied path
RewriteDone ==
  /\ pc = "rewrite"
  /\ copiedPaths = <<>>
  /\ pc' = "returned"
  /\ ret' = "nil"
  /\ UNCHANGED <<destDirs, destFiles, stack, wg, units, exitCode, faults, clearFiles,
                 copiedPaths>>
  /\ UNCHANGED others

Next ==
  \/ ReadDir
  \/ SkipHidden
  \/ EnterDir
  \/ RemoveAll
  \/ MkdirAll
  \/ DispatchFile
  \/ ReturnFromDir
  \/ \E p \in DOMAIN units : UnitRead(p)
  \/ \E p \in DOMAIN units : UnitWrite(p)
  \/ MainExitError
  \/ MainWaitExit
  \/ DispatchFileNoJoin
  \/ \E p \in DOMAIN units : UnitReadNoJoin(p)
  \/ \E p \in DOMAIN units : UnitWriteNoJoin(p)
  \/ MainExit
  \/ ClearReadDir
  \/ ClearRemove
  \/ ClearDone
  \/ CopyFile
  \/ CopyReturn
  \/ RewriteCopied
  \/ RewriteDone

Spec == Init /\ [][Next]_vars

(***************************************************************************)
(* The front matter processors on one file, in the order main registers    *)
(* them: title, slug, date; the date processor in its three attempts.      *)
(***************************************************************************)
MaxNameLen == 4
NameChars == {"a", "#", ".", "m", "d"}

RECURSIVE SeqsUpTo(_, _)
SeqsUpTo(S, n) ==
  IF n = 0 THEN {<<>>}
  ELSE SeqsUpTo(S, n - 1) \cup
       {Append(q, c) : q \in {r \in SeqsUpTo(S, n - 1) : Len(r) = n - 1}, c \in S}

\* the names convertAllRecursively hands to convertFile: not hidden
ConvertedNames == {n \in SeqsUpTo(NameChars, MaxNameLen) : n # <<>> /\ ~IsHidden(n)}

\* what parseFrontMatter can return for a file that parses
ParsedFrontMatters ==
  {[ZeroFrontMatter EXCEPT !.Title = t, !.Slug = sl, !.Date = d] :
     t \in {<<>>, <<"M", "y", " ", "T", "!">>},
     sl \in {<<>>, <<"s">>},
     d \in {"", "2020-01-01"}}

FmInit ==
  /\ WalkIdle
  /\ LinkIdle
  /\ \E n \in ConvertedNames : file = [Name |-> n, Title |-> FileTitle(n)]
  /\ parsedFrontMatter \in ParsedFrontMatters
  /\ frontMatter = parsedFrontMatter
  /\ step = "title"
  /\ dateEnv = NoLookup

RunTitleProcessor ==
  /\ step = "title"
  /\ frontMatter' = addFallbackFrontMatterTitle(file.Name, frontMatter)
  /\ step' = "slug"
  /\ UNCHANGED <<file, parsedFrontMatter, dateEnv, walkVars, linkVars>>

RunSlugProcessor ==
  /\ step = "slug"
  /\ frontMatter' = addFallbackFrontMatterSlug(frontMatter)
  /\ step' = "gitDate"
  /\ UNCHANGED <<file, parsedFrontMatter, dateEnv, walkVars, linkVars>>

\* addFallbackFrontMatterDate: the attempt on git
RunGitDate ==
  /\ step = "gitDate"
  /\ \E env \in DateEnvs :
       /\ dateEnv' = env
       /\ frontMatter' = AfterGitDate(env, frontMatter)
  /\ step' = "fileDate"
  /\ UNCHANGED <<file, parsedFrontMatter, walkVars, linkVars>>

\* addFallbackFrontMatterDate: the attempt on the file's modification time
RunFileDate ==
  /\ step = "fileDate"
  /\ frontMatter' = AfterFileDate(dateEnv, frontMatter)
  /\ step' = "nowDate"
  /\ UNCHANGED <<file, parsedFrontMatter, dateEnv, walkVars, linkVars>>

\* addFallbackFrontMatterDate: the clock
RunNowDate ==
  /\ step = "nowDate"
  /\ frontMatter' = AfterNowDate(dateEnv, frontMatter)
  /\ step' = "done"
  /\ UNCHANGED <<file, parsedFrontMatter, dateEnv, walkVars, linkVars>>

FmNext ==
  \/ RunTitleProcessor
  \/ RunSlugProcessor
  \/ RunGitDate
  \/ RunFileDate
  \/ RunNowDate

SpecFrontMatter == FmInit /\ [][FmNext]_vars

(***************************************************************************)
(* The link rewriters on a note holding the link [[linkPage#linkHeading]]. *)
(***************************************************************************)
MaxLinkPart == 2
PageChars == {"P", " "}
HeadingChars == {"H", "h", " ", "#"}

\* the text around the link: nothing, plain words, or the link [[Q]]
Befores == {<<>>, <<"x", " ">>, <<"[", "[", "Q", "]", "]", "\n">>}
Afters == {<<>>, <<" ", "y">>, <<"[", "[", "Q", "]", "]">>}

Note == textBefore \o LL \o linkPage \o <<"#">> \o linkHeading \o RR \o textAfter

LinkInit ==
  /\ WalkIdle
  /\ FmIdle
  /\ linkPage \in SeqsUpTo(PageChars, MaxLinkPart)
  /\ linkHeading \in SeqsUpTo(HeadingChars, MaxLinkPart)
  /\ textBefore \in Befores
  /\ textAfter \in Afters
  /\ rewritten = NotRewritten

\* convertWikiLinks of part_000 on the note
RewriteWikiLinks ==
  /\ "wiki" \notin rewritten.by
  /\ rewritten' = [rewritten EXCEPT !.wiki = convertWikiLinks(Note), !.by = @ \cup {"wiki"}]
  /\ UNCHANGED <<linkPage, linkHeading, textBefore, textAfter, walkVars, fmVars>>

\* convertContent of main.go on the note
RewriteContent ==
  /\ "content" \notin rewritten.by
  /\ rewritten' = [rewritten EXCEPT !.content = convertContent(Note),
                                    !.by = @ \cup {"content"}]
  /\ UNCHANGED <<linkPage, linkHeading, textBefore, textAfter, walkVars, fmVars>>

\* convertObsidianMarkdownToHugoMarkdown of main.go on the note
RewriteMarkdown ==
  /\ "markdown" \notin rewritten.by
  /\ rewritten' = [rewritten EXCEPT
                     !.markdown = convertObsidianMarkdownToHugoMarkdown(Note),
                     !.by = @ \cup {"markdown"}]
  /\ UNCHANGED <<linkPage, linkHeading, textBefore, textAfter, walkVars, fmVars>>

LinkNext ==
  \/ RewriteWikiLinks
  \/ RewriteContent
  \/ RewriteMarkdown

SpecLinks == LinkInit /\ [][LinkNext]_vars

(***************************************************************************)
(* The properties checked.                                                 *)
(***************************************************************************)
VaultPaths == vault.dirs \cup DOMAIN vault.files
HiddenPath(p) == \E i \in DOMAIN p : p[i][1] = "."
Unfinished == {p \in DOMAIN units : units[p].pc # "done"}
Failed == {p \in DOMAIN units : units[p].err # "nil"}
IsMarkdown(name) == HasSuffix(name, <<".", "m", "d">>)

\* C1: in the wait-group program, when ConvertObsidianToHugo has returned
\* nil, every goroutine the walk started has finished, and the file of each
\* that did not fail is in the destination.
C1_ReturnedMeansUnitsDone ==
  (variant = "waitGroup" /\ ret = "nil") =>
    \A p \in DOMAIN units :
      /\ units[p].pc = "done"
      /\ units[p].err = "nil" => p \in DOMAIN destFiles

\* C2: in the wait-group program, when the process has ended and the
\* conversion of some file failed (its read, its parse or its write),
\* ConvertObsidianToHugo returned an error to main.
C2_FileFailureReachesCaller ==
  (variant = "waitGroup" /\ pc = "exited" /\ Failed # {}) => ret = "err"

\* C3: in the wait-group program, a file of the vault whose name does not end
\* in ".md", once written to the destination, holds there what it holds in
\* the vault.
C3_NonMarkdownCopiedVerbatim ==
  variant = "waitGroup" =>
    \A p \in DOMAIN destFiles \cap DOMAIN vault.files :
      ~IsMarkdown(Base(p)) => destFiles[p] = vault.files[p]

\* the same of the copy-then-rewrite program
CopyKeepsNonMarkdown ==
  variant = "copy" =>
    \A p \in DOMAIN destFiles \cap DOMAIN vault.files :
      ~IsMarkdown(Base(p)) => destFiles[p] = vault.files[p]

\* C4: once the title, slug and date processors have run, the front matter's
\* title, slug and date are all non-empty, whatever the file's name and
\* whatever was parsed.
C4_TitleSlugDateFilled ==
  step = "done" =>
    /\ frontMatter.Title # <<>>
    /\ frontMatter.Slug # <<>>
    /\ frontMatter.Date # ""

\* the anchor of a heading: lowercased, spaces replaced by hyphens
C5_Anchor(h) == [i \in DOMAIN h |-> IF h[i] = " " THEN "-" ELSE ToLowerChar(h[i])]

\* the text around the link as a rewriter must leave it
C5_Around(t) ==
  IF HasPrefixAt(t, 0, <<"[", "[", "Q", "]", "]">>)
  THEN RefPlain(<<"Q">>) \o Slice(t, 5, Len(t))
  ELSE t

\* the note with [[page#heading]] rewritten: display text and target the
\* page, anchor the heading lowercased and hyphenated
C5_Expected ==
  C5_Around(textBefore)
    \o RefWithHeading(linkPage, C5_Anchor(linkHeading))
    \o C5_Around(textAfter)

\* C5: every link rewriter turns [[page#heading]] into a reference whose
\* display text and target are the page and whose anchor is the heading
\* lowercased with spaces replaced by hyphens.
C5_HeadingLinkRewritten ==
  \A r \in rewritten.by : rewritten[r] = C5_Expected

\* the same of convertWikiLinks (part_000) alone
WikiLinksRewritesHeadingLink ==
  "wiki" \in rewritten.by => rewritten.wiki = C5_Expected

\* the git lookup was unavailable, failed, or read no timestamp
C6_LookupFailed(env) ==
  \/ env.gitRootErr
  \/ env.ptyErr
  \/ env.readErr
  \/ TrimSpace(env.output) = <<>>
  \/ \E i \in DOMAIN TrimSpace(env.output) : TrimSpace(env.output)[i] \notin Range(Digits)

\* C6: when no date was parsed and the git lookup failed, the lookup leaves
\* the date empty, and the date ends as the file's modification time or, if
\* os.Stat fails too, the clock's time.
C6_FailedLookupLeavesDateEmpty ==
  (parsedFrontMatter.Date = "" /\ C6_LookupFailed(dateEnv)) =>
    /\ step = "fileDate" => frontMatter.Date = ""
    /\ step = "done" =>
         frontMatter.Date = IF dateEnv.statErr
                            THEN FormatRFC3339(dateEnv.now)
                            ELSE FormatRFC3339(dateEnv.mtime)

\* C7: in the wait-group program, convertAllRecursively never walks a
\* directory whose os.Mkdir failed for another reason than the directory
\* existing already.
C7_MkdirFailureAborts ==
  variant = "waitGroup" =>
    \A i \in DOMAIN stack : stack[i].err \in {"nil", "EEXIST"}

\* C8: in the wait-group program, the destination directory of every file
\* handed to a goroutine exists.
C8_DirExistsAtDispatch ==
  variant = "waitGroup" =>
    \A p \in DOMAIN units : Dir(p) \in destDirs

\* C9: no step creates, in the destination, a path with an element whose
\* name starts with ".".
C9_NoHiddenCreated ==
  [][\A p \in DestPaths' \ DestPaths : ~HiddenPath(p)]_vars

\* a walk that ended well over a vault with a hidden directory and something
\* in it, and that wrote at least one file
C9_Witness ==
  /\ ret = "nil"
  /\ \E p \in VaultPaths : Len(p) = 2 /\ HiddenPath(p)
  /\ DOMAIN destFiles # {}

\* C10: in the wait-group program the WaitGroup's counter is never negative,
\* is the number of goroutines started and not finished, and the process
\* exits with status 0 only when all of them have finished.
C10_WaitGroupCounts ==
  variant = "waitGroup" =>
    /\ wg >= 0
    /\ wg = Cardinality(Unfinished)
    /\ exitCode = 0 => Unfinished = {}

\* an exit with status 0 after two goroutines, one that failed to parse its
\* file and one that wrote its file
C10_Witness ==
  /\ variant = "waitGroup"
  /\ exitCode = 0
  /\ \E p, q \in DOMAIN units : units[p].err = "parse" /\ units[q].err = "nil"

====
